---- MODULE Spec2Model ----
(***************************************************************************)
(* Model of numtest's Compare trait (src/src/compare.rs) for f32 and f64,  *)
(* of its Precision trait (src/src/precision.rs) and of its assertion      *)
(* macros (src/src/assert_float.rs, src/src/assert_array.rs).              *)
(*                                                                         *)
(* A float is a record [k, neg, m, e]: k is "nan", "inf" or "fin"; a       *)
(* finite value is (-1)^neg * m * 10^e in canonical form (m carries no     *)
(* trailing zero, zero is m = 0, e = 0, and keeps its sign).  Arithmetic   *)
(* is decimal floating point with Digits significant digits, rounded half  *)
(* to even, overflowing to infinity above the width's largest finite value *)
(* and flushing to zero below its smallest subnormal.  The i32 arguments   *)
(* keep their width: negating i32::MIN overflows.                          *)
(***************************************************************************)
EXTENDS Integers, Sequences, FiniteSets, TLC

VARIABLES pc, op, w, a, b, decimal, tol, result, new_result, actual_decimal,
          metric, iters,
          lookup,
          arr1, arr2, idx, idx_mismatched, min_precision, max_diff

\* The locals of an array assertion macro.
array_vars == <<arr1, arr2, idx, idx_mismatched, min_precision, max_diff>>

vars == <<pc, op, w, a, b, decimal, tol, result, new_result, actual_decimal,
          metric, iters, lookup, array_vars>>

(* ------------------------------ bounds --------------------------------- *)

\* Significant decimal digits carried by a modelled float.
Digits == 3

\* How far beyond the exponent range of the width the requested decimals go.
DecSlack == 3

\* Requested decimals around zero: -MidDec .. MidDec.
MidDec == 3

\* Cap on the iterations of one precision search that the model follows.
MaxIters == 640

\* Largest number of elements of an array-like struct.
MaxLen == 2

\* A precision search evaluated in one step runs for at most 2^LoopDoublings
\* iterations, which is more than MaxIters.
LoopDoublings == 10

(* ------------------------- widths and Precision ------------------------ *)

Widths == {32, 64}

I32Min == -2147483647 - 1

I32Max == 2147483647

max_10_exp(width) == IF width = 32 THEN 38 ELSE 308

min_10_exp(width) == IF width = 32 THEN -37 ELSE -307

\* max_decimal with the constants of the two widths exchanged.
max_decimalExchanged(width) == IF width = 32 THEN 15 ELSE 7

\* MAX_DECIMAL
max_decimal(width) == IF width = 32 THEN 7 ELSE 15

AbsI32(x) == IF x < 0 THEN -x ELSE x

\* self.min_10_exp().abs(): the ceiling of the achieved precision.
Ceiling(width) == AbsI32(min_10_exp(width))

\* -self.max_10_exp(): the floor of the achieved precision.
Floor(width) == -max_10_exp(width)

\* The two leading digits of the largest finite value (3.4e38, 1.7e308).
MaxLead(width) == IF width = 32 THEN 34 ELSE 17

\* Decimal exponent of the smallest subnormal (1.4e-45, 4.9e-324).
MinSubExp(width) == IF width = 32 THEN -45 ELSE -324

(* ----------------------------- float values ---------------------------- *)

NaN(neg) == [k |-> "nan", neg |-> neg, m |-> 0, e |-> 0]

Inf(neg) == [k |-> "inf", neg |-> neg, m |-> 0, e |-> 0]

Fin(neg, m, e) == [k |-> "fin", neg |-> neg, m |-> m, e |-> e]

Zero(neg) == Fin(neg, 0, 0)

One == Fin(FALSE, 1, 0)

is_nan(x) == x.k = "nan"

is_infinite(x) == x.k = "inf"

IsFinite(x) == x.k = "fin"

IsZero(x) == x.k = "fin" /\ x.m = 0

RECURSIVE Pow10(_)
Pow10(n) == IF n <= 0 THEN 1 ELSE 10 * Pow10(n - 1)

RECURSIVE NumDigits(_)
NumDigits(m) == IF m < 10 THEN 1 ELSE 1 + NumDigits(m \div 10)

\* Scientific exponent of a nonzero finite value m * 10^e.
SciExp(m, e) == e + NumDigits(m) - 1

RECURSIVE Strip(_, _)
Strip(m, e) ==
    IF m = 0 THEN <<0, 0>>
    ELSE IF m % 10 = 0 THEN Strip(m \div 10, e + 1)
    ELSE <<m, e>>

\* m * 10^e rounded to Digits significant digits, ties to even.
RoundTo(m, e) ==
    LET nd == NumDigits(m)
    IN  IF nd <= Digits THEN <<m, e>>
        ELSE LET k    == nd - Digits
                 q    == m \div Pow10(k)
                 r    == m % Pow10(k)
                 half == 5 * Pow10(k - 1)
                 up   == r > half \/ (r = half /\ q % 2 = 1)
             IN  <<IF up THEN q + 1 ELSE q, e + k>>

\* Whether the magnitude m * 10^e (m > 0, canonical) exceeds the largest
\* finite value of the width.
Overflows(width, m, e) ==
    LET s == SciExp(m, e)
    IN  \/ s > max_10_exp(width)
        \/ /\ s = max_10_exp(width)
           /\ LET nd == NumDigits(m)
              IN  IF nd >= 2 THEN m > MaxLead(width) * Pow10(nd - 2)
                  ELSE m * 10 > MaxLead(width)

\* The float of the width nearest to (-1)^neg * m * 10^e.
Norm(width, neg, m, e) ==
    LET r == RoundTo(m, e)
        c == Strip(r[1], r[2])
    IN  IF c[1] = 0 THEN Zero(neg)
        ELSE IF Overflows(width, c[1], c[2]) THEN Inf(neg)
        ELSE IF SciExp(c[1], c[2]) < MinSubExp(width) THEN Zero(neg)
        ELSE Fin(neg, c[1], c[2])

Neg(x) == [x EXCEPT !.neg = ~x.neg]

\* Float::abs
Abs(x) == [x EXCEPT !.neg = FALSE]

\* Magnitude order of two finite canonical values.
MagLeFin(m1, e1, m2, e2) ==
    IF m1 = 0 THEN TRUE
    ELSE IF m2 = 0 THEN FALSE
    ELSE LET s1 == SciExp(m1, e1)
             s2 == SciExp(m2, e2)
         IN  IF s1 # s2 THEN s1 < s2
             ELSE LET lo == IF e1 < e2 THEN e1 ELSE e2
                  IN  m1 * Pow10(e1 - lo) <= m2 * Pow10(e2 - lo)

MagLe(x, y) ==
    IF is_infinite(x) THEN is_infinite(y)
    ELSE IF is_infinite(y) THEN TRUE
    ELSE MagLeFin(x.m, x.e, y.m, y.e)

\* -1, 0 or 1: the sign of a non-NaN value as an extended real.
Sgn(x) == IF IsZero(x) THEN 0 ELSE IF x.neg THEN -1 ELSE 1

\* IEEE-754 `<=`: false as soon as an operand is NaN.
FloatLe(x, y) ==
    IF is_nan(x) \/ is_nan(y) THEN FALSE
    ELSE IF Sgn(x) # Sgn(y) THEN Sgn(x) < Sgn(y)
    ELSE IF Sgn(x) = 0 THEN TRUE
    ELSE IF Sgn(x) = 1 THEN MagLe(x, y)
    ELSE MagLe(y, x)

\* IEEE-754 `==`: NaN equals nothing, +0 equals -0.
FloatEq(x, y) ==
    IF is_nan(x) \/ is_nan(y) THEN FALSE
    ELSE IF IsZero(x) /\ IsZero(y) THEN TRUE
    ELSE x = y

\* Float::signum: 1.0 for positive values, +0.0 and +Inf, -1.0 for negative
\* ones, -0.0 and -Inf, NaN for NaN.
signum(x) == IF is_nan(x) THEN NaN(FALSE) ELSE Fin(x.neg, 1, 0)

\* Sum of two finite values.
AddFin(width, x, y) ==
    IF x.m = 0 /\ y.m = 0 THEN Zero(x.neg /\ y.neg)
    ELSE IF x.m = 0 THEN y
    ELSE IF y.m = 0 THEN x
    ELSE LET s1 == SciExp(x.m, x.e)
             s2 == SciExp(y.m, y.e)
         IN  IF s1 - s2 > Digits + 1 THEN x
             ELSE IF s2 - s1 > Digits + 1 THEN y
             ELSE LET lo == IF x.e < y.e THEN x.e ELSE y.e
                      M1 == x.m * Pow10(x.e - lo)
                      M2 == y.m * Pow10(y.e - lo)
                  IN  IF x.neg = y.neg THEN Norm(width, x.neg, M1 + M2, lo)
                      ELSE IF M1 = M2 THEN Zero(FALSE)
                      ELSE IF M1 > M2 THEN Norm(width, x.neg, M1 - M2, lo)
                      ELSE Norm(width, y.neg, M2 - M1, lo)

\* x - y
Sub(width, x, y) ==
    IF is_nan(x) \/ is_nan(y) THEN NaN(FALSE)
    ELSE IF is_infinite(x) /\ is_infinite(y)
         THEN IF x.neg = y.neg THEN NaN(FALSE) ELSE x
    ELSE IF is_infinite(x) THEN x
    ELSE IF is_infinite(y) THEN Neg(y)
    ELSE AddFin(width, x, Neg(y))

\* (self - other).abs()
AbsDiff(width, x, y) == Abs(Sub(width, x, y))

\* x * y
Mul(width, x, y) ==
    IF is_nan(x) \/ is_nan(y) THEN NaN(FALSE)
    ELSE IF is_infinite(x) \/ is_infinite(y)
         THEN IF IsZero(x) \/ IsZero(y) THEN NaN(FALSE)
              ELSE Inf(x.neg # y.neg)
    ELSE Norm(width, x.neg # y.neg, x.m * y.m, x.e + y.e)

\* x / y
Div(width, x, y) ==
    IF is_nan(x) \/ is_nan(y) THEN NaN(FALSE)
    ELSE IF is_infinite(x)
         THEN IF is_infinite(y) THEN NaN(FALSE) ELSE Inf(x.neg # y.neg)
    ELSE IF is_infinite(y) THEN Zero(x.neg # y.neg)
    ELSE IF IsZero(y)
         THEN IF IsZero(x) THEN NaN(FALSE) ELSE Inf(x.neg # y.neg)
    ELSE IF IsZero(x) THEN Zero(x.neg # y.neg)
    ELSE LET k == Digits + 1 + NumDigits(y.m) - NumDigits(x.m)
             n == x.m * Pow10(k)
             q == n \div y.m
             r == n % y.m
         IN  Norm(width, x.neg # y.neg,
                  IF r = 0 THEN q * 10 ELSE q * 10 + 1, x.e - y.e - k - 1)

\* Float::max
FMax(x, y) ==
    IF is_nan(x) THEN y
    ELSE IF is_nan(y) THEN x
    ELSE IF FloatLe(x, y) THEN y ELSE x

\* The literal 1.5
OnePointFive == Fin(FALSE, 15, -1)

\* f32::EPSILON = 1.1920929e-7 and f64::EPSILON = 2.220446e-16, to the
\* digits the model carries.
epsilon(width) ==
    IF width = 32 THEN Norm(width, FALSE, 1192093, -13)
    ELSE Norm(width, FALSE, 2220446, -22)

\* 10.0.powi(n): 10^|n| by repeated multiplication, which overflows to
\* infinity above max_10_exp, and its reciprocal when n is negative.
powi(width, n) ==
    IF n >= 0
    THEN IF n > max_10_exp(width) THEN Inf(FALSE) ELSE Fin(FALSE, 1, n)
    ELSE IF n < -max_10_exp(width) THEN Zero(FALSE) ELSE Fin(FALSE, 1, n)

(* ------------------------------ i32 ------------------------------------ *)

\* Whether `-x` overflows i32.
NegOverflows(x) == x = I32Min

\* `-x` as a build without overflow checks computes it.
WrappingNeg(x) == IF x = I32Min THEN I32Min ELSE -x

(* ------------------------------ Compare -------------------------------- *)

\* is_equal comparing bit patterns instead of values.
IsEqualBitwise(x, y) == x = y

\* is_equal without the edge case of the NaNs.
IsEqualIeee(x, y) == FloatEq(x, y)

\* is_equal
IsEqual(x, y) ==
    IF is_nan(x) \/ is_nan(y) THEN is_nan(x) /\ is_nan(y)
    ELSE FloatEq(x, y)

\* The decimal relation with the comparison turned round.
WithinDecimalFlipped(width, x, y, nd) ==
    FloatLe(Mul(width, OnePointFive, powi(width, nd)), AbsDiff(width, x, y))

\* (self - other).abs() <= 1.5 * 10.0.powi(nd), nd the negated decimal.
WithinDecimal(width, x, y, nd) ==
    FloatLe(AbsDiff(width, x, y), Mul(width, OnePointFive, powi(width, nd)))

\* The edge cases of is_equal_to_decimal without the test that two
\* infinities are the same one.
DecimalEdgeAnyInf(width, x, y, d) ==
    IF is_nan(x) \/ is_nan(y)
    THEN IF is_nan(x) /\ is_nan(y)
         THEN <<TRUE, TRUE, AbsI32(min_10_exp(width))>>
         ELSE <<TRUE, d = -max_10_exp(width), -max_10_exp(width)>>
    ELSE IF is_infinite(x) \/ is_infinite(y)
    THEN IF is_infinite(x) /\ is_infinite(y)
         THEN <<TRUE, TRUE, AbsI32(min_10_exp(width))>>
         ELSE <<TRUE, d = -max_10_exp(width), -max_10_exp(width)>>
    ELSE <<FALSE, FALSE, 0>>

\* The edge cases of is_equal_to_decimal: <<TRUE, verdict, precision>> when
\* one of them returns, <<FALSE, FALSE, 0>> otherwise.
DecimalEdge(width, x, y, d) ==
    IF is_nan(x) \/ is_nan(y)
    THEN IF is_nan(x) /\ is_nan(y)
         THEN <<TRUE, TRUE, AbsI32(min_10_exp(width))>>
         ELSE <<TRUE, d = -max_10_exp(width), -max_10_exp(width)>>
    ELSE IF is_infinite(x) \/ is_infinite(y)
    THEN IF (is_infinite(x) /\ is_infinite(y)) /\ FloatEq(x, y)
         THEN <<TRUE, TRUE, AbsI32(min_10_exp(width))>>
         ELSE <<TRUE, d = -max_10_exp(width), -max_10_exp(width)>>
    ELSE <<FALSE, FALSE, 0>>

\* The verdict of is_equal_to_decimal (its first component), for a decimal
\* whose negation does not overflow or wraps.
DecimalVerdict(width, x, y, d) ==
    LET edge == DecimalEdge(width, x, y, d)
    IN  IF edge[1] THEN edge[2]
        ELSE WithinDecimal(width, x, y, WrappingNeg(d))

\* is_equal_to_atol treating any two infinities as equal.
IsEqualToAtolAnyInf(width, x, y, atol) ==
    IF is_nan(x) /\ is_nan(y) THEN <<TRUE, Zero(FALSE)>>
    ELSE IF is_nan(x) \/ is_nan(y) THEN <<is_nan(atol), NaN(FALSE)>>
    ELSE IF is_infinite(x) /\ is_infinite(y) THEN <<TRUE, Zero(FALSE)>>
    ELSE LET abs_diff == AbsDiff(width, x, y)
         IN  <<FloatLe(abs_diff, atol), abs_diff>>

\* is_equal_to_atol testing "one is NaN" before "both are NaN".
IsEqualToAtolOneNaNFirst(width, x, y, atol) ==
    IF is_nan(x) \/ is_nan(y) THEN <<is_nan(atol), NaN(FALSE)>>
    ELSE IF is_nan(x) /\ is_nan(y) THEN <<TRUE, Zero(FALSE)>>
    ELSE IF is_infinite(x) /\ is_infinite(y) /\ FloatEq(signum(x), signum(y))
    THEN <<TRUE, Zero(FALSE)>>
    ELSE LET abs_diff == AbsDiff(width, x, y)
         IN  <<FloatLe(abs_diff, atol), abs_diff>>

\* is_equal_to_atol never accepting a lone NaN operand.
IsEqualToAtolNaNNeverEqual(width, x, y, atol) ==
    IF is_nan(x) /\ is_nan(y) THEN <<TRUE, Zero(FALSE)>>
    ELSE IF is_nan(x) \/ is_nan(y) THEN <<FALSE, NaN(FALSE)>>
    ELSE IF is_infinite(x) /\ is_infinite(y) /\ FloatEq(signum(x), signum(y))
    THEN <<TRUE, Zero(FALSE)>>
    ELSE LET abs_diff == AbsDiff(width, x, y)
         IN  <<FloatLe(abs_diff, atol), abs_diff>>

\* is_equal_to_atol without `.abs()` on the difference.
IsEqualToAtolSigned(width, x, y, atol) ==
    IF is_nan(x) /\ is_nan(y) THEN <<TRUE, Zero(FALSE)>>
    ELSE IF is_nan(x) \/ is_nan(y) THEN <<is_nan(atol), NaN(FALSE)>>
    ELSE IF is_infinite(x) /\ is_infinite(y) /\ FloatEq(signum(x), signum(y))
    THEN <<TRUE, Zero(FALSE)>>
    ELSE LET abs_diff == Sub(width, x, y)
         IN  <<FloatLe(abs_diff, atol), abs_diff>>

\* is_equal_to_atol
IsEqualToAtol(width, x, y, atol) ==
    IF is_nan(x) /\ is_nan(y) THEN <<TRUE, Zero(FALSE)>>
    ELSE IF is_nan(x) \/ is_nan(y) THEN <<is_nan(atol), NaN(FALSE)>>
    ELSE IF is_infinite(x) /\ is_infinite(y) /\ FloatEq(signum(x), signum(y))
    THEN <<TRUE, Zero(FALSE)>>
    ELSE LET abs_diff == AbsDiff(width, x, y)
         IN  <<FloatLe(abs_diff, atol), abs_diff>>

\* is_equal_to_rtol dividing by the smaller magnitude.
IsEqualToRtolMinDenominator(width, x, y, rtol) ==
    IF FloatEq(x, Zero(FALSE)) /\ FloatEq(y, Zero(FALSE))
    THEN <<TRUE, Zero(FALSE)>>
    ELSE IF is_nan(x) /\ is_nan(y) THEN <<TRUE, Zero(FALSE)>>
    ELSE IF is_infinite(x) /\ is_infinite(y)
         THEN IF FloatEq(signum(x), signum(y)) THEN <<TRUE, Zero(FALSE)>>
              ELSE <<FloatEq(rtol, One), One>>
    ELSE IF is_nan(x) \/ is_nan(y) THEN <<FloatEq(rtol, One), One>>
    ELSE IF is_infinite(x) \/ is_infinite(y) THEN <<FloatEq(rtol, One), One>>
    ELSE LET abs_diff == AbsDiff(width, x, y)
             max      == IF FloatLe(Abs(x), Abs(y)) THEN Abs(x) ELSE Abs(y)
         IN  <<FloatLe(abs_diff, Mul(width, rtol, max)),
               Div(width, abs_diff, max)>>

\* is_equal_to_rtol dividing by the magnitude of the first operand.
IsEqualToRtolSelfDenominator(width, x, y, rtol) ==
    IF FloatEq(x, Zero(FALSE)) /\ FloatEq(y, Zero(FALSE))
    THEN <<TRUE, Zero(FALSE)>>
    ELSE IF is_nan(x) /\ is_nan(y) THEN <<TRUE, Zero(FALSE)>>
    ELSE IF is_infinite(x) /\ is_infinite(y)
         THEN IF FloatEq(signum(x), signum(y)) THEN <<TRUE, Zero(FALSE)>>
              ELSE <<FloatEq(rtol, One), One>>
    ELSE IF is_nan(x) \/ is_nan(y) THEN <<FloatEq(rtol, One), One>>
    ELSE IF is_infinite(x) \/ is_infinite(y) THEN <<FloatEq(rtol, One), One>>
    ELSE LET abs_diff == AbsDiff(width, x, y)
             max      == Abs(x)
         IN  <<FloatLe(abs_diff, Mul(width, rtol, max)),
               Div(width, abs_diff, max)>>

\* is_equal_to_rtol without the edge case of two zeros.
IsEqualToRtolNoZeroCase(width, x, y, rtol) ==
    IF is_nan(x) /\ is_nan(y) THEN <<TRUE, Zero(FALSE)>>
    ELSE IF is_infinite(x) /\ is_infinite(y)
         THEN IF FloatEq(signum(x), signum(y)) THEN <<TRUE, Zero(FALSE)>>
              ELSE <<FloatEq(rtol, One), One>>
    ELSE IF is_nan(x) \/ is_nan(y) THEN <<FloatEq(rtol, One), One>>
    ELSE IF is_infinite(x) \/ is_infinite(y) THEN <<FloatEq(rtol, One), One>>
    ELSE LET abs_diff == AbsDiff(width, x, y)
             max      == FMax(Abs(x), Abs(y))
         IN  <<FloatLe(abs_diff, Mul(width, rtol, max)),
               Div(width, abs_diff, max)>>

\* is_equal_to_rtol accepting every rtol of at least 1.0 in the edge cases
\* whose relative difference is 1.0.
IsEqualToRtolAtLeastOne(width, x, y, rtol) ==
    IF FloatEq(x, Zero(FALSE)) /\ FloatEq(y, Zero(FALSE))
    THEN <<TRUE, Zero(FALSE)>>
    ELSE IF is_nan(x) /\ is_nan(y) THEN <<TRUE, Zero(FALSE)>>
    ELSE IF is_infinite(x) /\ is_infinite(y)
         THEN IF FloatEq(signum(x), signum(y)) THEN <<TRUE, Zero(FALSE)>>
              ELSE <<FloatLe(One, rtol), One>>
    ELSE IF is_nan(x) \/ is_nan(y) THEN <<FloatLe(One, rtol), One>>
    ELSE IF is_infinite(x) \/ is_infinite(y) THEN <<FloatLe(One, rtol), One>>
    ELSE LET abs_diff == AbsDiff(width, x, y)
             max      == FMax(Abs(x), Abs(y))
         IN  <<FloatLe(abs_diff, Mul(width, rtol, max)),
               Div(width, abs_diff, max)>>

\* is_equal_to_rtol
IsEqualToRtol(width, x, y, rtol) ==
    IF FloatEq(x, Zero(FALSE)) /\ FloatEq(y, Zero(FALSE))
    THEN <<TRUE, Zero(FALSE)>>
    ELSE IF is_nan(x) /\ is_nan(y) THEN <<TRUE, Zero(FALSE)>>
    ELSE IF is_infinite(x) /\ is_infinite(y)
    THEN IF FloatEq(signum(x), signum(y)) THEN <<TRUE, Zero(FALSE)>>
         ELSE <<FloatEq(rtol, One), One>>
    ELSE IF is_nan(x) \/ is_nan(y) THEN <<FloatEq(rtol, One), One>>
    ELSE IF is_infinite(x) \/ is_infinite(y) THEN <<FloatEq(rtol, One), One>>
    ELSE LET abs_diff == AbsDiff(width, x, y)
             max      == FMax(Abs(x), Abs(y))
         IN  <<FloatLe(abs_diff, Mul(width, rtol, max)),
               Div(width, abs_diff, max)>>

\* `new_result && actual_decimal < min_10_exp.abs()`, on the pair
\* st = <<actual_decimal, new_result>>.
UpCondition(width, st) == st[2] /\ st[1] < AbsI32(min_10_exp(width))

\* The upward loop of is_equal_to_decimal, run for at most 2^k iterations.
RECURSIVE UpRun(_, _, _, _, _)
UpRun(width, x, y, st, k) ==
    IF ~UpCondition(width, st) THEN st
    ELSE IF k = 0
         THEN <<st[1] + 1, WithinDecimal(width, x, y, WrappingNeg(st[1] + 1))>>
    ELSE UpRun(width, x, y, UpRun(width, x, y, st, k - 1), k - 1)

\* The upward loop of is_equal_to_decimal run to its end, and the step back.
SearchUpFrom(width, x, y, actual, new) ==
    LET st == UpRun(width, x, y, <<actual, new>>, LoopDoublings)
    IN  IF st[1] < AbsI32(min_10_exp(width)) THEN st[1] - 1 ELSE st[1]

\* `!new_result && actual_decimal > -max_10_exp`, on the pair
\* st = <<actual_decimal, new_result>>.
DownCondition(width, st) == ~st[2] /\ st[1] > -max_10_exp(width)

\* The downward loop of is_equal_to_decimal, run for at most 2^k iterations.
RECURSIVE DownRun(_, _, _, _, _)
DownRun(width, x, y, st, k) ==
    IF ~DownCondition(width, st) THEN st
    ELSE IF k = 0
         THEN <<st[1] - 1, WithinDecimal(width, x, y, WrappingNeg(st[1] - 1))>>
    ELSE DownRun(width, x, y, DownRun(width, x, y, st, k - 1), k - 1)

\* The downward loop of is_equal_to_decimal run to its end.
SearchDownFrom(width, x, y, actual, new) ==
    DownRun(width, x, y, <<actual, new>>, LoopDoublings)[1]

\* is_equal_to_decimal as one call: <<verdict, achieved precision>>, for a
\* decimal whose negation does not overflow or wraps.
IsEqualToDecimal(width, x, y, d) ==
    LET edge == DecimalEdge(width, x, y, d)
    IN  IF edge[1] THEN <<edge[2], edge[3]>>
        ELSE LET r == WithinDecimal(width, x, y, WrappingNeg(d))
             IN  <<r, IF r THEN SearchUpFrom(width, x, y, d, r)
                      ELSE SearchDownFrom(width, x, y, d, r)>>

\* The search of is_equal_to_decimal(x, y, d) ends within MaxIters
\* iterations.
SearchFits(width, x, y, d) ==
    \/ DecimalEdge(width, x, y, d)[1]
    \/ IF WithinDecimal(width, x, y, WrappingNeg(d))
       THEN d >= AbsI32(min_10_exp(width)) - MaxIters
       ELSE d <= MaxIters - max_10_exp(width)

(* -------------------------- assertion macros --------------------------- *)

\* count_elements!
CountElements(x1, x2) == <<Len(x1), Len(x2)>>

\* validate_counts! never panicking.
ValidateCountsNever(count1, count2) == FALSE

\* validate_counts!: TRUE when it panics.
ValidateCounts(count1, count2) == count1 # count2

\* The number of pairs that `$arr1.iter().zip($arr2.iter())` yields.
ZipLen(x1, x2) == IF Len(x1) <= Len(x2) THEN Len(x1) ELSE Len(x2)

\* `.into()` from the width of the elements to f64, which is exact.
IntoF64(x) == x

\* i32::min
MinI32(x, y) == IF x <= y THEN x ELSE y

(* ------------------------------ inputs --------------------------------- *)

\* Operands: every class of value, both signs of the special ones, nearby
\* and distant finite values, the largest power of ten, two small normal
\* values (one of them equal to zero to one decimal less than the ceiling of
\* the width, and not to more) and a subnormal one.
Values(width) ==
    { NaN(FALSE), NaN(TRUE), Inf(FALSE), Inf(TRUE), Zero(FALSE), Zero(TRUE),
      One, Neg(One), Fin(FALSE, 101, -2), Fin(FALSE, 12, 2), Fin(FALSE, 13, 2),
      Fin(FALSE, 1, max_10_exp(width)), Fin(TRUE, 1, max_10_exp(width)),
      Fin(FALSE, 1, min_10_exp(width)),
      Fin(FALSE, 1, min_10_exp(width) + 1),
      Fin(FALSE, 1, -max_10_exp(width) - 2) }

\* Requested decimals: both ends of i32, the neighbourhood of the floor and
\* of the ceiling of the width, and the neighbourhood of zero.
Decimals(width) ==
    {I32Min, I32Max}
        \cup ((Floor(width) - DecSlack) .. (Floor(width) + 1))
        \cup ((-MidDec) .. MidDec)
        \cup ((Ceiling(width) - 1) .. (Ceiling(width) + DecSlack))

\* Tolerances: NaN, both infinities, zero, negative and positive values.
Tols(width) ==
    { NaN(FALSE), Inf(FALSE), Inf(TRUE), Zero(FALSE), Neg(One), One,
      Fin(FALSE, 1, -2), Fin(FALSE, 1, 2) }

\* Elements of the array-like structs: two equal to two decimals but not to
\* three, NaN and an infinity.
ArrValues(width) == { One, Fin(FALSE, 101, -2), NaN(FALSE), Inf(FALSE) }

\* Array-like structs of at most MaxLen elements.
Arrays(width) == UNION { [1..n -> ArrValues(width)] : n \in 0..MaxLen }

\* Decimals requested of the array macro: i32::MIN, one below the floor of
\* both widths, and two between which the elements 1.0 and 1.01 part.
ArrDecimals == { I32Min, -(max_10_exp(64) + 1), 2, 3 }

\* Tolerances requested of the array macros.
ArrTols == { NaN(FALSE), Zero(FALSE), Fin(FALSE, 1, -2), One }

\* is_equal_to_decimal on every pair of elements and every decimal of the
\* array macro, computed once; <<FALSE, 0>> stands where the search does not
\* end within MaxIters iterations, and is not read.
DecimalOfElements ==
    [width \in Widths |->
        [x \in ArrValues(width) |->
            [y \in ArrValues(width) |->
                [d \in ArrDecimals |->
                    IF SearchFits(width, x, y, d)
                    THEN IsEqualToDecimal(width, x, y, d)
                    ELSE <<FALSE, 0>>]]]]

\* What the Precision methods return before any lookup.
NoLookup ==
    [max_decimal |-> 0, max_10_exp |-> 0, min_10_exp |-> 0,
     epsilon |-> Zero(FALSE)]

(* --------------------------- state machine ----------------------------- *)

\* The methods of Compare, as values of op.
CompareOps ==
    { "is_equal", "is_equal_to_decimal", "is_equal_to_atol",
      "is_equal_to_rtol" }

\* The array assertion macros, as values of op.
ArrayOps ==
    { "assert_arrays_equal", "assert_arrays_equal_to_decimal",
      "assert_arrays_equal_to_atol", "assert_arrays_equal_to_rtol" }

Init ==
    /\ pc = "idle"
    /\ op = "none"
    /\ w = 32
    /\ a = Zero(FALSE)
    /\ b = Zero(FALSE)
    /\ decimal = 0
    /\ tol = Zero(FALSE)
    /\ result = FALSE
    /\ new_result = FALSE
    /\ actual_decimal = 0
    /\ metric = Zero(FALSE)
    /\ iters = 0
    /\ lookup = NoLookup
    /\ arr1 = <<>>
    /\ arr2 = <<>>
    /\ idx = 0
    /\ idx_mismatched = <<>>
    /\ min_precision = 0
    /\ max_diff = Zero(FALSE)

\* a.is_equal(b)
CallIsEqual ==
    /\ pc = "idle"
    /\ \E width \in Widths : \E x \in Values(width), y \in Values(width) :
          /\ w' = width /\ a' = x /\ b' = y
          /\ result' = IsEqual(x, y)
    /\ op' = "is_equal"
    /\ pc' = "done"
    /\ UNCHANGED <<decimal, tol, new_result, actual_decimal, metric, iters>>
    /\ UNCHANGED <<lookup, array_vars>>

\* a.is_equal_to_decimal(b, d) returning from an edge case (NaN, Inf).
CallDecimalEdge ==
    /\ pc = "idle"
    /\ \E width \in Widths :
       \E x \in Values(width), y \in Values(width), d \in Decimals(width) :
          LET edge == DecimalEdge(width, x, y, d)
          IN  /\ edge[1]
              /\ w' = width /\ a' = x /\ b' = y /\ decimal' = d
              /\ result' = edge[2]
              /\ actual_decimal' = edge[3]
    /\ op' = "is_equal_to_decimal"
    /\ pc' = "done"
    /\ UNCHANGED <<tol, new_result, metric, iters>>
    /\ UNCHANGED <<lookup, array_vars>>

\* a.is_equal_to_decimal(b, d), standard case, up to the start of the search:
\* the verdict at the requested decimal, then the direction of the search.
\* `-decimal` either does not overflow or wraps (overflow checks off).
CallDecimal ==
    /\ pc = "idle"
    /\ \E width \in Widths :
       \E x \in Values(width), y \in Values(width), d \in Decimals(width) :
          /\ ~DecimalEdge(width, x, y, d)[1]
          /\ w' = width /\ a' = x /\ b' = y /\ decimal' = d
          /\ result' = WithinDecimal(width, x, y, WrappingNeg(d))
    /\ op' = "is_equal_to_decimal"
    /\ new_result' = result'
    /\ actual_decimal' = decimal'
    /\ iters' = 0
    /\ pc' = IF result' THEN "up" ELSE "down"
    /\ UNCHANGED <<tol, metric>>
    /\ UNCHANGED <<lookup, array_vars>>

\* a.is_equal_to_decimal(b, i32::MIN), standard case, in a build with
\* overflow checks: `-decimal` panics.
CallDecimalOverflow ==
    /\ pc = "idle"
    /\ \E width \in Widths :
       \E x \in Values(width), y \in Values(width), d \in Decimals(width) :
          /\ ~DecimalEdge(width, x, y, d)[1]
          /\ NegOverflows(d)
          /\ w' = width /\ a' = x /\ b' = y /\ decimal' = d
    /\ op' = "is_equal_to_decimal"
    /\ pc' = "panicked"
    /\ UNCHANGED <<tol, result, new_result, actual_decimal, metric, iters>>
    /\ UNCHANGED <<lookup, array_vars>>

\* One iteration of `while new_result && actual_decimal < min_10_exp.abs()`.
SearchUp ==
    /\ pc = "up"
    /\ new_result /\ actual_decimal < AbsI32(min_10_exp(w))
    /\ iters < MaxIters
    /\ actual_decimal' = actual_decimal + 1
    /\ new_result' = WithinDecimal(w, a, b, WrappingNeg(actual_decimal'))
    /\ iters' = iters + 1
    /\ UNCHANGED <<pc, op, w, a, b, decimal, tol, result, metric>>
    /\ UNCHANGED <<lookup, array_vars>>

\* The upward loop ends: step back one unless the ceiling was reached.
SearchUpExit ==
    /\ pc = "up"
    /\ ~(new_result /\ actual_decimal < AbsI32(min_10_exp(w)))
    /\ actual_decimal' = IF actual_decimal < AbsI32(min_10_exp(w))
                         THEN actual_decimal - 1 ELSE actual_decimal
    /\ pc' = "done"
    /\ UNCHANGED <<op, w, a, b, decimal, tol, result, new_result, metric, iters>>
    /\ UNCHANGED <<lookup, array_vars>>

\* One iteration of `while !new_result && actual_decimal > -max_10_exp`.
SearchDown ==
    /\ pc = "down"
    /\ ~new_result /\ actual_decimal > -max_10_exp(w)
    /\ iters < MaxIters
    /\ actual_decimal' = actual_decimal - 1
    /\ new_result' = WithinDecimal(w, a, b, WrappingNeg(actual_decimal'))
    /\ iters' = iters + 1
    /\ UNCHANGED <<pc, op, w, a, b, decimal, tol, result, metric>>
    /\ UNCHANGED <<lookup, array_vars>>

\* The downward loop ends.
SearchDownExit ==
    /\ pc = "down"
    /\ ~(~new_result /\ actual_decimal > -max_10_exp(w))
    /\ pc' = "done"
    /\ UNCHANGED <<op, w, a, b, decimal, tol, result, new_result,
                   actual_decimal, metric, iters>>
    /\ UNCHANGED <<lookup, array_vars>>

\* a.is_equal_to_atol(b, atol)
CallAtol ==
    /\ pc = "idle"
    /\ \E width \in Widths :
       \E x \in Values(width), y \in Values(width), t \in Tols(width) :
          LET r == IsEqualToAtol(width, x, y, t)
          IN  /\ w' = width /\ a' = x /\ b' = y /\ tol' = t
              /\ result' = r[1]
              /\ metric' = r[2]
    /\ op' = "is_equal_to_atol"
    /\ pc' = "done"
    /\ UNCHANGED <<decimal, new_result, actual_decimal, iters>>
    /\ UNCHANGED <<lookup, array_vars>>

\* a.is_equal_to_rtol(b, rtol)
CallRtol ==
    /\ pc = "idle"
    /\ \E width \in Widths :
       \E x \in Values(width), y \in Values(width), t \in Tols(width) :
          LET r == IsEqualToRtol(width, x, y, t)
          IN  /\ w' = width /\ a' = x /\ b' = y /\ tol' = t
              /\ result' = r[1]
              /\ metric' = r[2]
    /\ op' = "is_equal_to_rtol"
    /\ pc' = "done"
    /\ UNCHANGED <<decimal, new_result, actual_decimal, iters>>
    /\ UNCHANGED <<lookup, array_vars>>

\* x.max_decimal(), x.max_10_exp(), x.min_10_exp() and x.epsilon() on a
\* value x of either width.
CallPrecision ==
    /\ pc = "idle"
    /\ \E width \in Widths : \E x \in Values(width) :
          /\ w' = width /\ a' = x
          /\ lookup' = [max_decimal |-> max_decimal(width),
                        max_10_exp  |-> max_10_exp(width),
                        min_10_exp  |-> min_10_exp(width),
                        epsilon     |-> epsilon(width)]
    /\ op' = "precision"
    /\ pc' = "done"
    /\ UNCHANGED <<b, decimal, tol, result, new_result, actual_decimal,
                   metric, iters, array_vars>>

\* assert_equal!, assert_equal_to_decimal!, assert_equal_to_atol! and
\* assert_equal_to_rtol! after their call of the Compare method has returned:
\* `if !are_equal { panic!(...) }`.
AssertCheck ==
    /\ pc = "done"
    /\ op \in CompareOps
    /\ pc' = IF result THEN "assert_passed" ELSE "assert_failed"
    /\ UNCHANGED <<op, w, a, b, decimal, tol, result, new_result,
                   actual_decimal, metric, iters, lookup, array_vars>>

\* A scalar assertion macro whose call of the Compare method panicked: the
\* panic unwinds through the macro.
AssertUnwind ==
    /\ pc = "panicked"
    /\ pc' = "assert_unwound"
    /\ UNCHANGED <<op, w, a, b, decimal, tol, result, new_result,
                   actual_decimal, metric, iters, lookup, array_vars>>

\* assert_arrays_equal!(arr1, arr2) up to the loop: count_elements! and
\* validate_counts!, then the empty list of mismatches.
CallArraysEqual ==
    /\ pc = "idle"
    /\ \E width \in Widths : \E x1 \in Arrays(width), x2 \in Arrays(width) :
          LET counts == CountElements(x1, x2)
          IN  /\ w' = width /\ arr1' = x1 /\ arr2' = x2
              /\ pc' = IF ValidateCounts(counts[1], counts[2])
                       THEN "arr_count_panic" ELSE "arr_loop"
    /\ op' = "assert_arrays_equal"
    /\ idx' = 0
    /\ idx_mismatched' = <<>>
    /\ UNCHANGED <<a, b, decimal, tol, result, new_result, actual_decimal,
                   metric, iters, lookup, min_precision, max_diff>>

\* assert_arrays_equal_to_decimal!(arr1, arr2, decimal) up to the loop.
CallArraysDecimal ==
    /\ pc = "idle"
    /\ \E width \in Widths : \E x1 \in Arrays(width), x2 \in Arrays(width) :
       \E d \in ArrDecimals :
          LET counts == CountElements(x1, x2)
          IN  /\ w' = width /\ arr1' = x1 /\ arr2' = x2 /\ decimal' = d
              /\ pc' = IF ValidateCounts(counts[1], counts[2])
                       THEN "arr_count_panic" ELSE "arr_loop"
    /\ op' = "assert_arrays_equal_to_decimal"
    /\ min_precision' = I32Max
    /\ idx' = 0
    /\ idx_mismatched' = <<>>
    /\ UNCHANGED <<a, b, tol, result, new_result, actual_decimal, metric,
                   iters, lookup, max_diff>>

\* assert_arrays_equal_to_atol!(arr1, arr2, atol) up to the loop.
CallArraysAtol ==
    /\ pc = "idle"
    /\ \E width \in Widths : \E x1 \in Arrays(width), x2 \in Arrays(width) :
       \E t \in ArrTols :
          LET counts == CountElements(x1, x2)
          IN  /\ w' = width /\ arr1' = x1 /\ arr2' = x2 /\ tol' = t
              /\ pc' = IF ValidateCounts(counts[1], counts[2])
                       THEN "arr_count_panic" ELSE "arr_loop"
    /\ op' = "assert_arrays_equal_to_atol"
    /\ max_diff' = Zero(FALSE)
    /\ idx' = 0
    /\ idx_mismatched' = <<>>
    /\ UNCHANGED <<a, b, decimal, result, new_result, actual_decimal, metric,
                   iters, lookup, min_precision>>

\* assert_arrays_equal_to_rtol!(arr1, arr2, rtol) up to the loop.
CallArraysRtol ==
    /\ pc = "idle"
    /\ \E width \in Widths : \E x1 \in Arrays(width), x2 \in Arrays(width) :
       \E t \in ArrTols :
          LET counts == CountElements(x1, x2)
          IN  /\ w' = width /\ arr1' = x1 /\ arr2' = x2 /\ tol' = t
              /\ pc' = IF ValidateCounts(counts[1], counts[2])
                       THEN "arr_count_panic" ELSE "arr_loop"
    /\ op' = "assert_arrays_equal_to_rtol"
    /\ max_diff' = Zero(FALSE)
    /\ idx' = 0
    /\ idx_mismatched' = <<>>
    /\ UNCHANGED <<a, b, decimal, result, new_result, actual_decimal, metric,
                   iters, lookup, min_precision>>

\* One iteration of the loop of assert_arrays_equal!.
StepArraysEqual ==
    /\ pc = "arr_loop"
    /\ op = "assert_arrays_equal"
    /\ idx < ZipLen(arr1, arr2)
    /\ LET equal == IsEqual(arr1[idx + 1], arr2[idx + 1])
       IN  idx_mismatched' = IF ~equal THEN Append(idx_mismatched, idx)
                             ELSE idx_mismatched
    /\ idx' = idx + 1
    /\ UNCHANGED <<pc, op, w, a, b, decimal, tol, result, new_result,
                   actual_decimal, metric, iters, lookup, arr1, arr2,
                   min_precision, max_diff>>

\* One iteration of the loop of assert_arrays_equal_to_decimal!, the call of
\* is_equal_to_decimal returning: `-decimal` does not overflow or wraps, and
\* the search ends within MaxIters iterations.
StepArraysDecimal ==
    /\ pc = "arr_loop"
    /\ op = "assert_arrays_equal_to_decimal"
    /\ idx < ZipLen(arr1, arr2)
    /\ SearchFits(w, arr1[idx + 1], arr2[idx + 1], decimal)
    /\ LET r == DecimalOfElements[w][arr1[idx + 1]][arr2[idx + 1]][decimal]
       IN  /\ idx_mismatched' = IF ~r[1] THEN Append(idx_mismatched, idx)
                                ELSE idx_mismatched
           /\ min_precision' = MinI32(min_precision, r[2])
    /\ idx' = idx + 1
    /\ UNCHANGED <<pc, op, w, a, b, decimal, tol, result, new_result,
                   actual_decimal, metric, iters, lookup, arr1, arr2,
                   max_diff>>

\* One iteration of the loop of assert_arrays_equal_to_decimal! in a build
\* with overflow checks, the decimal being i32::MIN: is_equal_to_decimal
\* panics on `-decimal` and the panic unwinds through the macro.
StepArraysDecimalOverflow ==
    /\ pc = "arr_loop"
    /\ op = "assert_arrays_equal_to_decimal"
    /\ idx < ZipLen(arr1, arr2)
    /\ ~DecimalEdge(w, arr1[idx + 1], arr2[idx + 1], decimal)[1]
    /\ NegOverflows(decimal)
    /\ pc' = "arr_unwound"
    /\ UNCHANGED <<op, w, a, b, decimal, tol, result, new_result,
                   actual_decimal, metric, iters, lookup, array_vars>>

\* One iteration of the loop of assert_arrays_equal_to_atol!.
StepArraysAtol ==
    /\ pc = "arr_loop"
    /\ op = "assert_arrays_equal_to_atol"
    /\ idx < ZipLen(arr1, arr2)
    /\ LET r == IsEqualToAtol(w, arr1[idx + 1], arr2[idx + 1], tol)
       IN  /\ idx_mismatched' = IF ~r[1] THEN Append(idx_mismatched, idx)
                                ELSE idx_mismatched
           /\ max_diff' = FMax(max_diff, IntoF64(r[2]))
    /\ idx' = idx + 1
    /\ UNCHANGED <<pc, op, w, a, b, decimal, tol, result, new_result,
                   actual_decimal, metric, iters, lookup, arr1, arr2,
                   min_precision>>

\* One iteration of the loop of assert_arrays_equal_to_rtol!.
StepArraysRtol ==
    /\ pc = "arr_loop"
    /\ op = "assert_arrays_equal_to_rtol"
    /\ idx < ZipLen(arr1, arr2)
    /\ LET r == IsEqualToRtol(w, arr1[idx + 1], arr2[idx + 1], tol)
       IN  /\ idx_mismatched' = IF ~r[1] THEN Append(idx_mismatched, idx)
                                ELSE idx_mismatched
           /\ max_diff' = FMax(max_diff, IntoF64(r[2]))
    /\ idx' = idx + 1
    /\ UNCHANGED <<pc, op, w, a, b, decimal, tol, result, new_result,
                   actual_decimal, metric, iters, lookup, arr1, arr2,
                   min_precision>>

\* An array assertion macro leaving its loop at the first mismatch.
FinishArraysAtFirstMismatch ==
    /\ pc = "arr_loop"
    /\ idx = ZipLen(arr1, arr2) \/ Len(idx_mismatched) > 0
    /\ pc' = IF Len(idx_mismatched) > 0 THEN "arr_failed" ELSE "arr_passed"
    /\ UNCHANGED <<op, w, a, b, decimal, tol, result, new_result,
                   actual_decimal, metric, iters, lookup, array_vars>>

\* The loop of an array assertion macro is over:
\* `if idx_mismatched.len() > 0 { panic!(...) }`.
FinishArrays ==
    /\ pc = "arr_loop"
    /\ idx = ZipLen(arr1, arr2)
    /\ pc' = IF Len(idx_mismatched) > 0 THEN "arr_failed" ELSE "arr_passed"
    /\ UNCHANGED <<op, w, a, b, decimal, tol, result, new_result,
                   actual_decimal, metric, iters, lookup, array_vars>>

\* The call is over; the next one starts from scratch.
Return ==
    /\ pc \in {"done", "panicked", "assert_passed", "assert_failed",
              "assert_unwound", "arr_count_panic", "arr_passed",
              "arr_failed", "arr_unwound"}
    /\ pc' = "idle"
    /\ op' = "none"
    /\ w' = 32
    /\ a' = Zero(FALSE)
    /\ b' = Zero(FALSE)
    /\ decimal' = 0
    /\ tol' = Zero(FALSE)
    /\ result' = FALSE
    /\ new_result' = FALSE
    /\ actual_decimal' = 0
    /\ metric' = Zero(FALSE)
    /\ iters' = 0
    /\ lookup' = NoLookup
    /\ arr1' = <<>>
    /\ arr2' = <<>>
    /\ idx' = 0
    /\ idx_mismatched' = <<>>
    /\ min_precision' = 0
    /\ max_diff' = Zero(FALSE)

Next ==
    \/ CallIsEqual
    \/ CallDecimalEdge
    \/ CallDecimal
    \/ CallDecimalOverflow
    \/ SearchUp
    \/ SearchUpExit
    \/ SearchDown
    \/ SearchDownExit
    \/ CallAtol
    \/ CallRtol
    \/ CallPrecision
    \/ AssertCheck
    \/ AssertUnwind
    \/ CallArraysEqual
    \/ CallArraysDecimal
    \/ CallArraysAtol
    \/ CallArraysRtol
    \/ StepArraysEqual
    \/ StepArraysDecimal
    \/ StepArraysDecimalOverflow
    \/ StepArraysAtol
    \/ StepArraysRtol
    \/ FinishArrays
    \/ Return

Spec == Init /\ [][Next]_vars

(* ------------------------- classes of operands ------------------------- *)

BothNaN(x, y) == x.k = "nan" /\ y.k = "nan"

ExactlyOneNaN(x, y) == (x.k = "nan") # (y.k = "nan")

SameSignInf(x, y) == x.k = "inf" /\ y.k = "inf" /\ x.neg = y.neg

OppositeInf(x, y) == x.k = "inf" /\ y.k = "inf" /\ x.neg # y.neg

ExactlyOneInf(x, y) == (x.k = "inf") # (y.k = "inf")

BothFinite(x, y) == x.k = "fin" /\ y.k = "fin"

\* Equality of two non-NaN values as extended reals.
SameReal(x, y) ==
    \/ x.k = "fin" /\ y.k = "fin" /\ x.m = 0 /\ y.m = 0
    \/ x.k = y.k /\ x.neg = y.neg /\ x.m = y.m /\ x.e = y.e

DecimalDone == pc = "done" /\ op = "is_equal_to_decimal"

AtolDone == pc = "done" /\ op = "is_equal_to_atol"

\* |x - y| <= 1.5 * 10^(-d) with the right-hand side an exact real number,
\* whatever d: beyond the exponents of the width it exceeds every finite
\* difference or lies below every nonzero one.
ExactWithin(width, x, y, d) ==
    LET diff == AbsDiff(width, x, y)
    IN  IF is_infinite(diff) THEN FALSE
        ELSE IF IsZero(diff) THEN TRUE
        ELSE IF d < -(max_10_exp(width) + 1) THEN TRUE
        ELSE IF d > 1 - MinSubExp(width) THEN FALSE
        ELSE MagLeFin(diff.m, diff.e, 15, -d - 1)

(* -------------------------------- claims ------------------------------- *)

\* C1: is_equal(a, b) is true iff both operands are NaN (of any sign) or
\* neither is NaN and they are equal as numbers: +0 equals -0, an infinity
\* equals only the infinity of the same sign, NaN equals no non-NaN value.
C1_IsEqualPolicy ==
    (pc = "done" /\ op = "is_equal")
        => (result <=> IF a.k = "nan" \/ b.k = "nan" THEN BothNaN(a, b)
                       ELSE SameReal(a, b))

C1_Witness ==
    /\ pc = "done" /\ op = "is_equal"
    /\ a = NaN(FALSE) /\ b = NaN(TRUE)
    /\ result

\* C2: for finite operands and any requested decimal the verdict of
\* is_equal_to_decimal is true iff |a - b| <= 1.5 * 10^(-decimal).
C2_VerdictIsRelation ==
    (DecimalDone /\ BothFinite(a, b))
        => (result <=> ExactWithin(w, a, b, decimal))

\* C3: for finite operands the achieved precision is the largest decimal at
\* which the relation holds, capped at the ceiling |min_10_exp|, or the floor
\* -max_10_exp if the relation never holds.
C3_AchievedIsLargest ==
    (DecimalDone /\ BothFinite(a, b))
        => IF ~WithinDecimal(w, a, b, -Floor(w))
           THEN actual_decimal = Floor(w)
           ELSE /\ actual_decimal <= Ceiling(w)
                /\ WithinDecimal(w, a, b, WrappingNeg(actual_decimal))
                /\ \/ actual_decimal = Ceiling(w)
                   \/ ~WithinDecimal(w, a, b, WrappingNeg(actual_decimal + 1))

\* C4: for exactly equal finite operands is_equal_to_decimal returns
\* (true, |min_10_exp|), whatever decimal was requested.
C4_ExactEqualityGivesCeiling ==
    (DecimalDone /\ BothFinite(a, b) /\ SameReal(a, b))
        => (result /\ actual_decimal = Ceiling(w))

\* C5: is_equal_to_decimal on special operands: two NaNs or two infinities
\* of the same sign give (true, |min_10_exp|); exactly one NaN, exactly one
\* infinity, or infinities of opposite sign give
\* (decimal == -max_10_exp, -max_10_exp).
C5_DecimalSpecialOperands ==
    DecimalDone
        => /\ (BothNaN(a, b) \/ SameSignInf(a, b))
                => (result /\ actual_decimal = Ceiling(w))
           /\ (ExactlyOneNaN(a, b) \/ ExactlyOneInf(a, b) \/ OppositeInf(a, b))
                => /\ result <=> (decimal = Floor(w))
                   /\ actual_decimal = Floor(w)

C5_Witness ==
    /\ DecimalDone
    /\ a = Inf(FALSE) /\ b = Inf(TRUE)
    /\ decimal = Floor(w)
    /\ result /\ actual_decimal = Floor(w)

\* C6: if is_equal_to_decimal(a, b, d) has verdict true and d - 1 is not
\* below -max_10_exp, then is_equal_to_decimal(a, b, d - 1) has verdict true.
C6_VerdictMonotone ==
    (DecimalDone /\ result /\ decimal > Floor(w))
        => DecimalVerdict(w, a, b, decimal - 1)

C6_Witness ==
    /\ DecimalDone /\ result
    /\ a = One /\ b = Fin(FALSE, 101, -2)
    /\ decimal = 2
    /\ ~DecimalVerdict(w, a, b, decimal + 1)

\* C7: no comparison panics and no i32 operation of a comparison overflows,
\* whatever the operands and the parameter.
C7_TotalNoOverflow ==
    /\ pc # "panicked"
    /\ ~(/\ op = "is_equal_to_decimal"
         /\ ~DecimalEdge(w, a, b, decimal)[1]
         /\ NegOverflows(decimal))

\* C8: the precision search performs at most as many iterations as the
\* base-10 exponent range of the width, max_10_exp + |min_10_exp|.
C8_SearchBoundedByRange == iters <= max_10_exp(w) + Ceiling(w)

\* C9: for operands that are not NaN and not infinities of the same sign,
\* is_equal_to_atol returns |a - b| and the verdict |a - b| <= atol.
C9_AtolStandard ==
    (AtolDone /\ a.k # "nan" /\ b.k # "nan" /\ ~SameSignInf(a, b))
        => /\ metric = AbsDiff(w, a, b)
           /\ result <=> FloatLe(AbsDiff(w, a, b), tol)

C9_Witness ==
    /\ AtolDone
    /\ a = Fin(FALSE, 12, 2) /\ b = Fin(FALSE, 13, 2)
    /\ tol = Fin(FALSE, 1, 2)
    /\ result /\ metric = Fin(FALSE, 1, 2)

\* C10: is_equal_to_atol returns (true, 0.0) for every atol when both
\* operands are NaN or both are infinities of the same sign.
C10_AtolEqualSpecials ==
    (AtolDone /\ (BothNaN(a, b) \/ SameSignInf(a, b)))
        => (result /\ metric = Zero(FALSE))

C10_Witness ==
    /\ AtolDone
    /\ a = NaN(FALSE) /\ b = NaN(TRUE)
    /\ tol = NaN(FALSE)
    /\ result /\ metric = Zero(FALSE)

\* C11: when exactly one operand of is_equal_to_atol is NaN, the other
\* being finite or infinite, the returned difference is NaN and the verdict
\* is true exactly when atol is NaN.
C11_AtolOneNaN ==
    (AtolDone /\ ExactlyOneNaN(a, b))
        => /\ metric.k = "nan"
           /\ result <=> (tol.k = "nan")

C11_Witness ==
    /\ AtolDone
    /\ a = Inf(TRUE) /\ b = NaN(FALSE)
    /\ tol = NaN(FALSE)
    /\ result /\ metric.k = "nan"

\* C12: when exactly one operand of is_equal_to_atol is infinite and the
\* other finite, or both are infinities of opposite sign, the returned
\* difference is +Infinity and the verdict is diff <= atol, which is true
\* only for the atol +Infinity.
C12_AtolInfinite ==
    (AtolDone /\ ((ExactlyOneInf(a, b) /\ a.k # "nan" /\ b.k # "nan")
                    \/ OppositeInf(a, b)))
        => /\ metric = Inf(FALSE)
           /\ result <=> FloatLe(metric, tol)
           /\ result <=> (tol = Inf(FALSE))

C12_Witness ==
    /\ AtolDone
    /\ a = Zero(FALSE) /\ b = Inf(FALSE)
    /\ tol = Inf(FALSE)
    /\ result /\ metric = Inf(FALSE)

RtolDone == pc = "done" /\ op = "is_equal_to_rtol"

BothZero(x, y) == BothFinite(x, y) /\ x.m = 0 /\ y.m = 0

C14_RtolSymmetric ==
    RtolDone => IsEqualToRtol(w, b, a, tol) = <<result, metric>>

C14_Witness ==
    /\ RtolDone
    /\ a = Fin(FALSE, 12, 2) /\ b = Fin(FALSE, 13, 2)
    /\ tol = Fin(FALSE, 1, -2)
    /\ ~result /\ metric.k = "fin" /\ metric.m # 0

\* C15: the relative difference returned by is_equal_to_rtol lies in [0, 1],
\* for all operands and every rtol.
C15_RtolDifferenceInUnitRange ==
    RtolDone => /\ metric.k = "fin"
                /\ (metric.m = 0 \/ ~metric.neg)
                /\ FloatLe(metric, One)

\* C16: is_equal_to_rtol returns (true, 0.0) for every rtol when both
\* operands are zero (of any signs), both are NaN, or both are infinities of
\* the same sign.
C16_RtolEqualSpecials ==
    (RtolDone /\ (BothZero(a, b) \/ BothNaN(a, b) \/ SameSignInf(a, b)))
        => (result /\ metric = Zero(FALSE))

C16_Witness ==
    /\ RtolDone
    /\ a = Zero(FALSE) /\ b = Zero(TRUE)
    /\ tol = NaN(FALSE)
    /\ result /\ metric = Zero(FALSE)

\* C17: is_equal_to_rtol returns (rtol == 1.0, 1.0) when the operands are
\* infinities of opposite sign, when exactly one is NaN, or when exactly one
\* is infinite and the other finite.
C17_RtolUnequalSpecials ==
    (RtolDone /\ (\/ OppositeInf(a, b)
                  \/ ExactlyOneNaN(a, b)
                  \/ (ExactlyOneInf(a, b) /\ a.k # "nan" /\ b.k # "nan")))
        => /\ metric = One
           /\ result <=> (tol = One)

C17_Witness ==
    /\ RtolDone
    /\ a = Zero(FALSE) /\ b = Inf(FALSE)
    /\ tol = Fin(FALSE, 1, 2)
    /\ ~result /\ metric = One

\* C18: the Precision lookups do not depend on the value they are called
\* on, only on its width: max_decimal is 7, max_10_exp 38 and min_10_exp -37
\* for f32, and 15, 308 and -307 for f64; epsilon is the machine epsilon of
\* the width (2^-23, between 1e-7 and 2e-7; 2^-52, between 2e-16 and 3e-16).
C18_PrecisionConstants ==
    (pc = "done" /\ op = "precision")
        => /\ w = 32 => /\ lookup.max_decimal = 7
                        /\ lookup.max_10_exp = 38
                        /\ lookup.min_10_exp = -37
                        /\ FloatLe(Fin(FALSE, 1, -7), lookup.epsilon)
                        /\ FloatLe(lookup.epsilon, Fin(FALSE, 2, -7))
           /\ w = 64 => /\ lookup.max_decimal = 15
                        /\ lookup.max_10_exp = 308
                        /\ lookup.min_10_exp = -307
                        /\ FloatLe(Fin(FALSE, 2, -16), lookup.epsilon)
                        /\ FloatLe(lookup.epsilon, Fin(FALSE, 3, -16))

C18_Witness ==
    /\ pc = "done" /\ op = "precision"
    /\ w = 64 /\ a = NaN(TRUE)
    /\ lookup.max_decimal = 15 /\ lookup.max_10_exp = 308

\* The verdict of the Compare method `op` on the arguments of the call.
CompareVerdict ==
    CASE op = "is_equal"            -> IsEqual(a, b)
      [] op = "is_equal_to_decimal" -> DecimalVerdict(w, a, b, decimal)
      [] op = "is_equal_to_atol"    -> IsEqualToAtol(w, a, b, tol)[1]
      [] op = "is_equal_to_rtol"    -> IsEqualToRtol(w, a, b, tol)[1]

\* C19: a scalar assertion macro panics if and only if its Compare method
\* returns the verdict false on the same arguments; when the verdict is true
\* it completes without panicking.
C19_MacroPanicsIffVerdictFalse ==
    (pc \in {"assert_passed", "assert_failed", "assert_unwound"})
        => ((pc \in {"assert_failed", "assert_unwound"})
                <=> (pc # "assert_unwound" /\ ~CompareVerdict))

\* C20: an array assertion macro whose two array-like structs do not have
\* the same number of elements panics on the count check, and no pair of
\* elements has been compared.
C20_CountCheckFirst ==
    (op \in ArrayOps /\ Len(arr1) # Len(arr2))
        => /\ pc = "arr_count_panic"
           /\ idx = 0
           /\ idx_mismatched = <<>>

C20_Witness ==
    /\ op = "assert_arrays_equal_to_decimal"
    /\ pc = "arr_count_panic"
    /\ Len(arr1) = 1 /\ Len(arr2) = 2
    /\ ~IsEqual(arr1[1], arr2[1])
    /\ idx = 0

(* ------------------------ array assertion macros ----------------------- *)

\* The verdict of the comparison of the pair at position i (from 1) by the
\* Compare method of the array macro `op`.
ElementVerdict(i) ==
    CASE op = "assert_arrays_equal" -> IsEqual(arr1[i], arr2[i])
      [] op = "assert_arrays_equal_to_decimal"
            -> DecimalVerdict(w, arr1[i], arr2[i], decimal)
      [] op = "assert_arrays_equal_to_atol"
            -> IsEqualToAtol(w, arr1[i], arr2[i], tol)[1]
      [] op = "assert_arrays_equal_to_rtol"
            -> IsEqualToRtol(w, arr1[i], arr2[i], tol)[1]

SameCount == Len(arr1) = Len(arr2)

\* The array macro has left its loop normally.
ArraysLoopOver == op \in ArrayOps /\ pc \in {"arr_passed", "arr_failed"}

\* The indices (from 0) of the pairs whose verdict is false.
FailingIndices ==
    { i - 1 : i \in { j \in 1..Len(arr1) : ~ElementVerdict(j) } }

\* C21: with the same number of elements in both structs, an array assertion
\* macro panics if and only if the comparison of at least one pair returned
\* the verdict false; two empty structs pass.
C21_ArraysPanicIffSomeVerdictFalse ==
    (/\ op \in ArrayOps
     /\ pc \in {"arr_passed", "arr_failed", "arr_unwound"}
     /\ SameCount)
        => ((pc \in {"arr_failed", "arr_unwound"})
                <=> \E i \in 1..Len(arr1) :
                        /\ ~ElementVerdict(i)
                        /\ pc = "arr_unwound" => i <= idx)

\* C22: after the loop of an array assertion macro every pair has been
\* examined, and the list of mismatched indices holds exactly the positions
\* whose verdict is false, in increasing order without duplicates; its length
\* k is the number of failing pairs and n is the element count.
C22_MismatchedListExact ==
    (ArraysLoopOver /\ SameCount)
        => /\ idx = CountElements(arr1, arr2)[1]
           /\ { idx_mismatched[k] : k \in 1..Len(idx_mismatched) }
                  = FailingIndices
           /\ \A k \in 1..(Len(idx_mismatched) - 1) :
                  idx_mismatched[k] < idx_mismatched[k + 1]
           /\ Len(idx_mismatched) = Cardinality(FailingIndices)

C22_Witness ==
    /\ op = "assert_arrays_equal" /\ pc = "arr_failed"
    /\ arr1 = <<NaN(FALSE), One>> /\ arr2 = <<One, One>>
    /\ idx = 2
    /\ idx_mismatched = <<0>>

\* The achieved precision that is_equal_to_decimal returns for the pair at
\* position i (from 1).
ElementPrecision(i) == DecimalOfElements[w][arr1[i]][arr2[i]][decimal][2]

\* C23: when assert_arrays_equal_to_decimal! fails, the precision it reports
\* is the minimum over all pairs of the achieved precision returned by
\* is_equal_to_decimal, and it is strictly less than the requested decimal.
C23_ReportedPrecisionIsMinimum ==
    (/\ op = "assert_arrays_equal_to_decimal"
     /\ pc = "arr_failed"
     /\ SameCount)
        => /\ \A i \in 1..Len(arr1) : min_precision <= ElementPrecision(i)
           /\ \E i \in 1..Len(arr1) : min_precision = ElementPrecision(i)
           /\ min_precision < decimal

\* The difference that the comparator of the array macro `op` returns for
\* the pair at position i (from 1).
ElementDifference(i) ==
    CASE op = "assert_arrays_equal_to_atol"
            -> IsEqualToAtol(w, arr1[i], arr2[i], tol)[2]
      [] op = "assert_arrays_equal_to_rtol"
            -> IsEqualToRtol(w, arr1[i], arr2[i], tol)[2]

\* C24: when assert_arrays_equal_to_atol! or assert_arrays_equal_to_rtol!
\* fails, the difference it reports is the maximum of the differences
\* returned for the pairs: it is one of them, and it is not smaller than the
\* difference of any pair, a NaN difference being matched only by NaN.
C24_ReportedDifferenceIsMaximum ==
    (/\ op \in {"assert_arrays_equal_to_atol", "assert_arrays_equal_to_rtol"}
     /\ pc = "arr_failed"
     /\ SameCount)
        => /\ \E i \in 1..Len(arr1) : max_diff = ElementDifference(i)
           /\ \A i \in 1..Len(arr1) :
                 IF is_nan(ElementDifference(i)) THEN is_nan(max_diff)
                 ELSE FloatLe(ElementDifference(i), max_diff)

(* --------------------------- achieved precision ------------------------ *)

\* The requested decimal lies within [-max_10_exp, |min_10_exp|].
InRange == decimal >= Floor(w) /\ decimal <= Ceiling(w)

\* C25: for finite operands, every requested decimal within
\* [-max_10_exp, |min_10_exp|] yields the same achieved precision: the one of
\* the request at the floor and the one of the request at the ceiling.
C25_AchievedIndependentOfRequest ==
    (DecimalDone /\ BothFinite(a, b) /\ InRange)
        => \A d2 \in {Floor(w), Ceiling(w)} :
               IsEqualToDecimal(w, a, b, d2)[2] = actual_decimal

\* C26: whatever the operands and the requested decimal, the achieved
\* precision returned by is_equal_to_decimal lies within
\* [-max_10_exp, |min_10_exp|].
C26_AchievedWithinRange ==
    DecimalDone => (Floor(w) <= actual_decimal /\ actual_decimal <= Ceiling(w))

\* C27: whatever the operands and the requested decimal, the verdict of
\* is_equal_to_decimal is true if and only if the requested decimal is less
\* than or equal to the achieved precision returned with it.
C27_VerdictIffRequestAchieved ==
    DecimalDone => (result <=> decimal <= actual_decimal)

(* -------------------------------- is_equal ----------------------------- *)

\* C28: is_equal is an equivalence relation over all the values of a width,
\* NaNs, signed zeros and infinities included: reflexive, symmetric and
\* transitive.
C28_IsEqualEquivalence ==
    (pc = "done" /\ op = "is_equal")
        => /\ IsEqual(a, a) /\ IsEqual(b, b)
           /\ result = IsEqual(b, a)
           /\ \A c \in Values(w) :
                 (result /\ IsEqual(b, c)) => IsEqual(a, c)

C28_Witness ==
    /\ pc = "done" /\ op = "is_equal"
    /\ a = NaN(TRUE) /\ b = NaN(FALSE)
    /\ result
    /\ IsEqual(a, a)

====
